---- MODULE Spec2Model ----
(***************************************************************************)
(* Model of src/src/App.tsx: the React component App, which wires the UI   *)
(* state (isListening, transcript, inputText, isSpeaking, error) to the    *)
(* browser's SpeechRecognition and SpeechSynthesis engines.                *)
(*                                                                         *)
(* One step of the model is one JavaScript callback run to completion: a   *)
(* click handler, an engine event handler, or one run of the useEffect of  *)
(* lines 14-71 (its cleanup followed by its body).  React re-runs that     *)
(* effect whenever isListening or error differs from the values of its     *)
(* last run; while such a run is due no other callback is taken.           *)
(*                                                                         *)
(* Text is a sequence of one-character strings, so that trim() and the     *)
(* concatenation prev + ' ' + fragment are computed, not assumed.          *)
(***************************************************************************)
EXTENDS Integers, Sequences, FiniteSets, TLC

VARIABLES
    isListening,     \* useState(false), line 5
    transcript,      \* useState(''), line 6
    inputText,       \* useState(''), line 7
    isSpeaking,      \* useState(false), line 8
    error,           \* useState(''), line 9
    recognitionRef,  \* the SpeechRecognition instance the ref holds, or NoRec
    hasRecognition,  \* window.SpeechRecognition || window.webkitSpeechRecognition
    hasSynthesis,    \* 'speechSynthesis' in window
    effDeps,         \* <<isListening, error>> at the last run of the effect
    detached,        \* instances the ref no longer holds that still owe events
    queue,           \* utterances the synthesis engine holds, head first
    cancelled,       \* the causes of the error events due to utterances cancel() removed
    step,            \* the handler that ran last and the engine calls made since
    heard,           \* history: the fragments of all result events, in order
    heardSinceStart, \* history: the fragments since the last start attempt
    life,            \* "mounted", "unmounted", or "crashed": an exception left
                     \* the effect's cleanup, which no handler catches
    handles          \* history: the SpeechRecognition instances constructed so
                     \* far, counted up to 2

vars == <<isListening, transcript, inputText, isSpeaking, error, recognitionRef,
          hasRecognition, hasSynthesis, effDeps, detached, queue, cancelled,
          step, heard, heardSinceStart, life, handles>>

----------------------------------------------------------------------------
\* Bounds of the model.
MaxPending == 2   \* engine work outstanding: started instances that owe their
                  \* end event, utterances queued, error events of cancelled ones
MaxHeard == 2     \* result events in one run

Pending == Len(detached) + Len(queue) + Len(cancelled)

InputTexts == { <<>>, <<" ">>, <<"a">> }
Fragments == { <<"h">>, <<"y", "o">> }
RecognitionCauses == { "no-speech" }
SynthesisCauses == { "synthesis-failed" }
ThrownText == "InvalidStateError"

----------------------------------------------------------------------------
\* The messages the component writes to error.
MsgRecUnsupported == "Speech recognition is not supported in your browser"
MsgSynUnsupported == "Speech synthesis is not supported in your browser"
MsgRecUnavailable == "Speech recognition is not available"
MsgNoText == "Speech synthesis not available or no text to speak"
MsgRecError(c) == "Speech recognition error: " \o c
MsgRestartFailed(e) == "Failed to restart recognition: " \o e
MsgToggleFailed(e) == "Failed to toggle recognition: " \o e
MsgSynError(c) == "Speech synthesis error: " \o c
MsgSpeakFailed(e) == "Failed to start speech synthesis: " \o e
MsgStopFailed(e) == "Failed to stop speech: " \o e

----------------------------------------------------------------------------
\* String.prototype.trim on a sequence of characters.
IsSpace(c) == c = " "

RECURSIVE TrimStart(_)
TrimStart(s) ==
    IF s = <<>> THEN <<>>
    ELSE IF IsSpace(Head(s)) THEN TrimStart(Tail(s)) ELSE s

RECURSIVE TrimEnd(_)
TrimEnd(s) ==
    IF s = <<>> THEN <<>>
    ELSE IF IsSpace(s[Len(s)]) THEN TrimEnd(SubSeq(s, 1, Len(s) - 1)) ELSE s

Trim(s) == TrimEnd(TrimStart(s))

\* A handler that replaces the transcript by the fragment.
ReplaceByFragment(prev, f) == <<" ">> \o f

\* A handler that appends the fragment with no separator.
AppendFragmentNoSpace(prev, f) == prev \o f

\* prev + ' ' + transcript of line 26.
AppendFragment(prev, f) == prev \o <<" ">> \o f

\* The concatenation of " " + f over a sequence of fragments, in order.
RECURSIVE Caption(_)
Caption(fs) ==
    IF fs = <<>> THEN <<>> ELSE <<" ">> \o Head(fs) \o Caption(Tail(fs))

----------------------------------------------------------------------------
\* A SpeechRecognition instance: what its onend handler closed over when the
\* effect created it (cl: isListening; ce: whether error was non-empty, which
\* is all that line 38 reads of it), and the engine's state for it.
\*   inactive: not started;  active: started;  stopping: stop() was called,
\*   results, an error and the end event may still come;  errored: its error
\*   event was delivered, only the end event is due.
NoRec == [cl |-> FALSE, ce |-> FALSE, st |-> "none"]

NewRecognition(l, e) == [cl |-> l, ce |-> (e # ""), st |-> "inactive"]

\* SpeechRecognition.stop(): ignored unless the instance is started.
RecStop(r) == IF r.st = "active" THEN [r EXCEPT !.st = "stopping"] ELSE r

\* SpeechRecognition.start() throws InvalidStateError unless inactive.
RecCanStart(r) == r.st = "inactive"

RecStart(r) == [r EXCEPT !.st = "active"]

\* SpeechSynthesis.cancel(): every utterance leaves the queue and is owed an
\* error event, "interrupted" if it was being spoken, "canceled" if not.
CancelCause(u) == IF u.st = "speaking" THEN "interrupted" ELSE "canceled"

RECURSIVE CancelAll(_)
CancelAll(q) ==
    IF q = <<>> THEN <<>>
    ELSE <<CancelCause(Head(q))>> \o CancelAll(Tail(q))

NewUtterance(t) == [text |-> t, st |-> "pending"]

RemoveAt(s, i) == SubSeq(s, 1, i - 1) \o SubSeq(s, i + 1, Len(s))

\* What happened last: the handler that ran (op), the engine calls it made in
\* order, whether one of them threw, how many runs of the effect it has
\* induced so far and the engine calls their cleanups made.
Step(op, calls, threw) ==
    [op |-> op, calls |-> calls, threw |-> threw, runs |-> 0, cleanup |-> <<>>]

Count(calls, c) == Cardinality({ i \in 1..Len(calls) : calls[i] = c })

----------------------------------------------------------------------------
\* The effect of lines 14-71 is due again when one of its dependencies
\* [isListening, error] changed since its last run.
EffectDue == <<isListening, error>> # effDeps

\* An effect body that reports no missing capability.
EffectErrorKeeps(e) == e

\* error after the effect body of lines 15-61 ran.
EffectError(e) ==
    IF ~hasSynthesis THEN MsgSynUnsupported
    ELSE IF ~hasRecognition THEN MsgRecUnsupported
    ELSE e

Init ==
    /\ hasRecognition \in BOOLEAN
    /\ hasSynthesis \in BOOLEAN
    /\ isListening = FALSE
    /\ transcript = <<>>
    /\ inputText = <<>>
    /\ isSpeaking = FALSE
    /\ error = EffectError("")
    /\ recognitionRef = IF hasRecognition THEN NewRecognition(FALSE, "") ELSE NoRec
    /\ effDeps = <<FALSE, "">>
    /\ detached = <<>>
    /\ queue = <<>>
    /\ cancelled = <<>>
    /\ step = Step("mount", <<>>, FALSE)
    /\ heard = <<>>
    /\ heardSinceStart = <<>>
    /\ life = "mounted"
    /\ handles = IF hasRecognition THEN 1 ELSE 0

\* The cleanup of the effect's previous run (lines 63-70) and then its body
\* (lines 15-61) under the current isListening and error.
EffectCleanupCalls ==
    (IF recognitionRef # NoRec THEN <<"recognition.stop">> ELSE <<>>)
    \o (IF hasSynthesis THEN <<"synthesis.cancel">> ELSE <<>>)

EffectCancels == hasSynthesis

\* The cleanup is not inside a try: a call of it that throws ends it there.
\* thrower is the call that throws, "none" when none does.
CleanupThrowers ==
    {"none"} \cup { EffectCleanupCalls[i] : i \in 1..Len(EffectCleanupCalls) }

\* The cleanup of lines 63-70 as the values it leaves and the calls it made.
Cleanup(thrower) ==
    LET stops == recognitionRef # NoRec /\ thrower # "recognition.stop"
        cancels == EffectCancels /\ thrower = "none"
    IN [ref |-> IF stops THEN RecStop(recognitionRef) ELSE recognitionRef,
        queue |-> IF cancels THEN <<>> ELSE queue,
        cancelled |-> IF cancels THEN cancelled \o CancelAll(queue) ELSE cancelled,
        calls |-> IF thrower = "recognition.stop"
                  THEN <<"recognition.stop">> ELSE EffectCleanupCalls]

RunEffect(thrower) ==
    /\ life = "mounted"
    /\ EffectDue
    /\ thrower \in CleanupThrowers
    /\ LET c == Cleanup(thrower)
       IN /\ queue' = c.queue
          /\ cancelled' = c.cancelled
          /\ IF thrower # "none"
             THEN /\ life' = "crashed"
                  /\ step' = Step("crash", c.calls, TRUE)
                  /\ recognitionRef' = c.ref
                  /\ UNCHANGED <<detached, error, effDeps, handles>>
             ELSE /\ detached' = IF recognitionRef # NoRec /\ c.ref.st # "inactive"
                                 THEN Append(detached, c.ref) ELSE detached
                  /\ recognitionRef' = IF hasRecognition
                                       THEN NewRecognition(isListening, error) ELSE NoRec
                  /\ handles' = IF hasRecognition THEN 2 ELSE handles
                  /\ error' = EffectError(error)
                  /\ effDeps' = <<isListening, error>>
                  /\ step' = [step EXCEPT !.runs = @ + 1, !.cleanup = @ \o c.calls]
                  /\ UNCHANGED life
    /\ UNCHANGED <<isListening, transcript, inputText, isSpeaking, hasRecognition,
                   hasSynthesis, heard, heardSinceStart>>

\* The unmount of the component runs the cleanup of the effect's last run.
Unmount(thrower) ==
    /\ life = "mounted"
    /\ ~EffectDue
    /\ thrower \in CleanupThrowers
    /\ LET c == Cleanup(thrower)
       IN /\ recognitionRef' = c.ref
          /\ queue' = c.queue
          /\ cancelled' = c.cancelled
          /\ step' = Step("unmount", c.calls, thrower # "none")
    /\ life' = IF thrower = "none" THEN "unmounted" ELSE "crashed"
    /\ UNCHANGED <<isListening, transcript, inputText, isSpeaking, error,
                   hasRecognition, hasSynthesis, effDeps, detached, heard,
                   heardSinceStart, handles>>

----------------------------------------------------------------------------
\* onChange of the textarea (line 187) and the Clear button (line 216).
SetInputText(t) ==
    /\ life = "mounted"
    /\ ~EffectDue
    /\ t # inputText
    /\ inputText' = t
    /\ step' = Step("input", <<>>, FALSE)
    /\ UNCHANGED <<isListening, transcript, isSpeaking, error, recognitionRef,
                   hasRecognition, hasSynthesis, life, handles, effDeps, detached, queue, cancelled,
                   heard, heardSinceStart>>

----------------------------------------------------------------------------
\* toggleListening, lines 73-94: the onClick of the microphone button.
ToggleListening(fails) ==
    /\ life = "mounted"
    /\ ~EffectDue
    /\ IF recognitionRef = NoRec
       THEN /\ error' = MsgRecUnavailable
            /\ step' = Step("toggleUnavailable", <<>>, FALSE)
            /\ UNCHANGED <<isListening, transcript, recognitionRef, heardSinceStart>>
       ELSE IF isListening
       THEN /\ isListening' = FALSE
            /\ IF fails
               THEN error' = MsgToggleFailed(ThrownText) /\ UNCHANGED recognitionRef
               ELSE recognitionRef' = RecStop(recognitionRef) /\ UNCHANGED error
            /\ step' = Step("toggleStop", <<"recognition.stop">>, fails)
            /\ UNCHANGED <<transcript, heardSinceStart>>
       ELSE /\ Pending < MaxPending
            /\ transcript' = <<>>
            /\ heardSinceStart' = <<>>
            /\ IF fails \/ ~RecCanStart(recognitionRef)
               THEN /\ error' = MsgToggleFailed(ThrownText)
                    /\ isListening' = FALSE
                    /\ UNCHANGED recognitionRef
               ELSE /\ error' = ""
                    /\ isListening' = TRUE
                    /\ recognitionRef' = RecStart(recognitionRef)
            /\ step' = Step("toggleStart", <<"recognition.start">>, fails \/ ~RecCanStart(recognitionRef))
    /\ UNCHANGED <<inputText, isSpeaking, hasRecognition, hasSynthesis, life, handles, effDeps,
                   detached, queue, cancelled, heard>>

----------------------------------------------------------------------------
\* The recognition instances that can deliver events: 0 is the one the ref
\* holds, 1..Len(detached) are the ones earlier runs of the effect created.
Instances == (IF recognitionRef # NoRec THEN {0} ELSE {}) \cup (1..Len(detached))

Inst(i) == IF i = 0 THEN recognitionRef ELSE detached[i]

\* onresult, lines 23-27.
OnResult(i, f) ==
    /\ life = "mounted"
    /\ ~EffectDue
    /\ Inst(i).st \in {"active", "stopping"}
    /\ Len(heard) < MaxHeard
    /\ transcript' = AppendFragment(transcript, f)
    /\ heard' = Append(heard, f)
    /\ heardSinceStart' = Append(heardSinceStart, f)
    /\ step' = Step("onresult", <<>>, FALSE)
    /\ UNCHANGED <<isListening, inputText, isSpeaking, error, recognitionRef,
                   hasRecognition, hasSynthesis, life, handles, effDeps, detached, queue, cancelled>>

\* An onerror that records the message and leaves the flag.
RecognitionErrorKeepsFlag(c) == [error |-> MsgRecError(c), isListening |-> isListening]

\* What onerror leaves in error and isListening, lines 31-32.
RecognitionErrorState(c) == [error |-> MsgRecError(c), isListening |-> FALSE]

\* onerror, lines 29-33.  The engine delivers the end event after it.
OnError(i, c) ==
    /\ life = "mounted"
    /\ ~EffectDue
    /\ Inst(i).st \in {"active", "stopping"}
    /\ IF i = 0
       THEN recognitionRef' = [recognitionRef EXCEPT !.st = "errored"] /\ UNCHANGED detached
       ELSE detached' = [detached EXCEPT ![i].st = "errored"] /\ UNCHANGED recognitionRef
    /\ error' = RecognitionErrorState(c).error
    /\ isListening' = RecognitionErrorState(c).isListening
    /\ step' = Step("onerror", <<>>, FALSE)
    /\ UNCHANGED <<transcript, inputText, isSpeaking, hasRecognition, hasSynthesis, life, handles,
                   effDeps, queue, cancelled, heard, heardSinceStart>>

\* An onend that restarts whatever it closed over.
OnEndAlwaysRestarts(r) == "restart"

\* The branch onend takes (lines 38-49), decided on the error and isListening
\* the handler closed over when the effect registered it.
OnEndBranch(r) ==
    IF r.ce THEN "finalize"
    ELSE IF r.cl THEN "restart"
    ELSE "nothing"

\* onend, lines 35-50, of instance i, which the engine has just ended.  The
\* engine keeps delivering the event after the unmount: the handler runs, its
\* calls of the state setters change nothing then, its engine call is made.
OnEnd(i, fails) ==
    /\ life \in {"mounted", "unmounted"}
    /\ ~EffectDue
    /\ Inst(i).st \in {"active", "stopping", "errored"}
    /\ LET branch == OnEndBranch(Inst(i))
           ended == IF i = 0 THEN [recognitionRef EXCEPT !.st = "inactive"]
                    ELSE recognitionRef
           threw == branch = "restart" /\ (fails \/ ~RecCanStart(ended))
           sets == life = "mounted"
       IN /\ detached' = IF i = 0 THEN detached ELSE RemoveAt(detached, i)
          /\ recognitionRef' = IF branch = "restart" /\ ~threw
                               THEN RecStart(ended) ELSE ended
          /\ isListening' = IF sets /\ (branch = "finalize" \/ threw)
                            THEN FALSE ELSE isListening
          /\ error' = IF sets /\ threw THEN MsgRestartFailed(ThrownText) ELSE error
          /\ step' = Step("onend", IF branch = "restart" THEN <<"recognition.start">> ELSE <<>>, threw)
    /\ UNCHANGED <<transcript, inputText, isSpeaking, hasRecognition, hasSynthesis,
                   life, handles, effDeps, queue, cancelled, heard, heardSinceStart>>

----------------------------------------------------------------------------
\* stopSpeaking, lines 134-143, as the values it leaves.
StopSpeaking(fails) ==
    IF ~hasSynthesis
    THEN [queue |-> queue, cancelled |-> cancelled, isSpeaking |-> isSpeaking,
          error |-> error, calls |-> <<>>]
    ELSE IF fails
    THEN [queue |-> queue, cancelled |-> cancelled, isSpeaking |-> isSpeaking,
          error |-> MsgStopFailed(ThrownText), calls |-> <<"synthesis.cancel">>]
    ELSE [queue |-> <<>>, cancelled |-> cancelled \o CancelAll(queue),
          isSpeaking |-> FALSE, error |-> error, calls |-> <<"synthesis.cancel">>]

\* A guard that tests the text only.
SpeakRejectedTextOnly == Trim(inputText) = <<>>

\* The guard of speak, line 97.
SpeakRejected == ~hasSynthesis \/ Trim(inputText) = <<>>

\* The cancel speak makes before it submits, line 104.
SpeakCancelsFirst(fails) == StopSpeaking(fails)

\* The speak/stop button is disabled while the input is blank (line 194).
ButtonEnabled == Trim(inputText) # <<>>

\* speak, lines 96-132: the onClick of the button while isSpeaking is false.
ClickSpeak(cancelFails, speakFails) ==
    /\ life = "mounted"
    /\ ~EffectDue
    /\ ButtonEnabled
    /\ ~isSpeaking
    /\ IF SpeakRejected
       THEN /\ error' = MsgNoText
            /\ step' = Step("speakRejected", <<>>, FALSE)
            /\ UNCHANGED <<isSpeaking, queue, cancelled>>
       ELSE LET s == SpeakCancelsFirst(cancelFails)
            IN /\ Pending < MaxPending
               /\ cancelled' = s.cancelled
               /\ IF speakFails
                  THEN /\ queue' = s.queue
                       /\ error' = MsgSpeakFailed(ThrownText)
                       /\ isSpeaking' = FALSE
                  ELSE /\ queue' = Append(s.queue, NewUtterance(inputText))
                       /\ error' = s.error
                       /\ isSpeaking' = s.isSpeaking
               /\ step' = Step("speak", s.calls \o <<"synthesis.speak">>, speakFails)
    /\ UNCHANGED <<isListening, transcript, inputText, recognitionRef, hasRecognition,
                   hasSynthesis, life, handles, effDeps, detached, heard, heardSinceStart>>

\* stopSpeaking as the onClick of the button while isSpeaking is true.
ClickStopSpeaking(fails) ==
    /\ life = "mounted"
    /\ ~EffectDue
    /\ ButtonEnabled
    /\ isSpeaking
    /\ LET s == StopSpeaking(fails)
       IN /\ queue' = s.queue
          /\ cancelled' = s.cancelled
          /\ isSpeaking' = s.isSpeaking
          /\ error' = s.error
          /\ step' = Step("stopSpeaking", s.calls, fails /\ hasSynthesis)
    /\ UNCHANGED <<isListening, transcript, inputText, recognitionRef, hasRecognition,
                   hasSynthesis, life, handles, effDeps, detached, heard, heardSinceStart>>

----------------------------------------------------------------------------
\* utterance.onstart, lines 109-112: the engine begins the head of its queue.
UtteranceStart ==
    /\ life = "mounted"
    /\ ~EffectDue
    /\ queue # <<>>
    /\ Head(queue).st = "pending"
    /\ queue' = [queue EXCEPT ![1].st = "speaking"]
    /\ isSpeaking' = TRUE
    /\ error' = ""
    /\ step' = Step("onstart", <<>>, FALSE)
    /\ UNCHANGED <<isListening, transcript, inputText, recognitionRef, hasRecognition,
                   hasSynthesis, life, handles, effDeps, detached, cancelled, heard, heardSinceStart>>

\* utterance.onend, lines 114-117: the engine finished the head of its queue.
UtteranceEnd ==
    /\ life = "mounted"
    /\ ~EffectDue
    /\ queue # <<>>
    /\ Head(queue).st = "speaking"
    /\ queue' = Tail(queue)
    /\ isSpeaking' = FALSE
    /\ error' = ""
    /\ step' = Step("onend.utterance", <<>>, FALSE)
    /\ UNCHANGED <<isListening, transcript, inputText, recognitionRef, hasRecognition,
                   hasSynthesis, life, handles, effDeps, detached, cancelled, heard, heardSinceStart>>

\* utterance.onerror, lines 119-123, for a failure of the engine itself.
UtteranceError(c) ==
    /\ life = "mounted"
    /\ ~EffectDue
    /\ queue # <<>>
    /\ queue' = Tail(queue)
    /\ error' = MsgSynError(c)
    /\ isSpeaking' = FALSE
    /\ step' = Step("onerror.utterance", <<>>, FALSE)
    /\ UNCHANGED <<isListening, transcript, inputText, recognitionRef, hasRecognition,
                   hasSynthesis, life, handles, effDeps, detached, cancelled, heard, heardSinceStart>>

\* utterance.onerror, lines 119-123, for an utterance cancel() removed; the
\* engine delivers these events in the order of the cancels.
UtteranceCancelled ==
    /\ life = "mounted"
    /\ ~EffectDue
    /\ cancelled # <<>>
    /\ cancelled' = Tail(cancelled)
    /\ error' = MsgSynError(Head(cancelled))
    /\ isSpeaking' = FALSE
    /\ step' = Step("onerror.utterance", <<>>, FALSE)
    /\ UNCHANGED <<isListening, transcript, inputText, recognitionRef, hasRecognition,
                   hasSynthesis, life, handles, effDeps, detached, queue, heard, heardSinceStart>>

----------------------------------------------------------------------------
Next ==
    \/ \E thrower \in CleanupThrowers : RunEffect(thrower)
    \/ \E thrower \in CleanupThrowers : Unmount(thrower)
    \/ \E t \in InputTexts : SetInputText(t)
    \/ \E fails \in BOOLEAN : ToggleListening(fails)
    \/ \E i \in Instances, f \in Fragments : OnResult(i, f)
    \/ \E i \in Instances, c \in RecognitionCauses : OnError(i, c)
    \/ \E i \in Instances, fails \in BOOLEAN : OnEnd(i, fails)
    \/ \E cancelFails \in BOOLEAN, speakFails \in BOOLEAN : ClickSpeak(cancelFails, speakFails)
    \/ \E fails \in BOOLEAN : ClickStopSpeaking(fails)
    \/ UtteranceStart
    \/ UtteranceEnd
    \/ \E c \in SynthesisCauses : UtteranceError(c)
    \/ UtteranceCancelled

Spec == Init /\ [][Next]_vars

\* The runs in which every engine call of the cleanup returns.  A cleanup
\* call that throws ends a run of Spec in a state that differs from the one
\* before it only in life, step and what the calls before it did to the
\* engines, so what holds of the component's state under SpecReturning holds
\* under Spec as well.
NextReturning ==
    \/ RunEffect("none")
    \/ Unmount("none")
    \/ \E t \in InputTexts : SetInputText(t)
    \/ \E fails \in BOOLEAN : ToggleListening(fails)
    \/ \E i \in Instances, f \in Fragments : OnResult(i, f)
    \/ \E i \in Instances, c \in RecognitionCauses : OnError(i, c)
    \/ \E i \in Instances, fails \in BOOLEAN : OnEnd(i, fails)
    \/ \E cancelFails \in BOOLEAN, speakFails \in BOOLEAN : ClickSpeak(cancelFails, speakFails)
    \/ \E fails \in BOOLEAN : ClickStopSpeaking(fails)
    \/ UtteranceStart
    \/ UtteranceEnd
    \/ \E c \in SynthesisCauses : UtteranceError(c)
    \/ UtteranceCancelled

SpecReturning == Init /\ [][NextReturning]_vars

\* A state in which no run of the effect is due: what the page shows.
Stable == ~EffectDue

RecognitionOps == {"toggleStart", "toggleStop", "toggleUnavailable",
                   "onresult", "onerror", "onend"}
SynthesisOps == {"speak", "speakRejected", "stopSpeaking",
                 "onstart", "onend.utterance", "onerror.utterance"}

TypeOK ==
    /\ isListening \in BOOLEAN
    /\ isSpeaking \in BOOLEAN
    /\ Pending <= MaxPending
    /\ Len(heard) <= MaxHeard
    /\ life \in {"mounted", "unmounted", "crashed"}
    /\ handles \in 0..2

----------------------------------------------------------------------------
\* C1 (P3 auto-restart): whenever isListening is true and error is empty, the
\* handling of a recognition end event makes exactly one start request to the
\* recognition engine and leaves isListening true.
C1_AutoRestart ==
    [][(isListening /\ error = "" /\ Stable /\ step'.op = "onend" /\ step'.runs = 0)
        => (step'.calls = <<"recognition.start">> /\ isListening')]_vars

\* C2 (P4 mutual independence): no handler of the synthesis flow, nor a run of
\* the effect it induces, changes isListening; no handler of the recognition
\* flow, nor a run of the effect it induces, changes isSpeaking or cancels an
\* utterance the engine holds.
C2_Independence ==
    [][/\ step'.op \in SynthesisOps => isListening' = isListening
       /\ step'.op \in RecognitionOps =>
              (isSpeaking' = isSpeaking /\ Len(cancelled') <= Len(cancelled))]_vars

\* C3 as stated (P2): the transcript is the concatenation of " " + f over all
\* the fragments of the result events so far, whatever toggles came between.
C3_AllFragmentsKept == transcript = Caption(heard)

\* C3 as amended: the transcript is the concatenation of " " + f, in event
\* order, over the fragments received since the last toggle from idle.
C3_FragmentsSinceStart == transcript = Caption(heardSinceStart)

\* Two different fragments arrived in one session, and the session was then
\* stopped by the toggle.
C3_Witness ==
    /\ Len(heardSinceStart) = 2
    /\ heardSinceStart[1] # heardSinceStart[2]
    /\ step.op = "toggleStop"
    /\ Stable

\* C4: with the recognition capability present and the engine call not
\* throwing, a toggle from idle leaves, once the effect it induces has run,
\* isListening true, the transcript empty and error empty; a toggle while
\* listening makes a stop request and leaves isListening false.
C4_ToggleScenario ==
    /\ (step.op = "toggleStart" /\ ~step.threw /\ Stable)
           => (isListening /\ transcript = <<>> /\ error = "")
    /\ (step.op = "toggleStop" /\ ~step.threw)
           => (~isListening /\ Count(step.calls, "recognition.stop") = 1)

\* C5: an accepted speak submits exactly one utterance, for the input text;
\* its start callback sets isSpeaking, its end callback clears it, and neither
\* the start callback nor the run of the effect it induces cancels it.
C5_SpeakScenario ==
    [][/\ (step'.op = "speak" /\ step'.runs = 0 /\ ~step'.threw)
              => /\ Count(step'.calls, "synthesis.speak") = 1
                 /\ queue' # <<>>
                 /\ queue'[Len(queue')] = NewUtterance(inputText)
       /\ (step'.op = "onstart" /\ step'.runs = 0) => isSpeaking'
       /\ (step'.op = "onend.utterance" /\ step'.runs = 0) => ~isSpeaking'
       /\ step'.op = "onstart"
              => (Len(queue') = Len(queue) /\ cancelled' = cancelled)]_vars

\* C6 (P6 single active utterance): the engine never holds more than one
\* utterance, and the error event of an utterance that speak cancelled does
\* not take the utterance submitted after it out of the engine.
C6_SingleUtterance ==
    [][/\ Len(queue') <= 1
       /\ step'.op = "onerror.utterance" => Len(cancelled') <= Len(cancelled)]_vars

RecognitionAbsent(startupMessage) ==
    /\ ~isListening
    /\ step.op \notin {"toggleStart", "toggleStop", "onresult", "onerror", "onend"}
    /\ (step.op = "mount" /\ Stable) => error = startupMessage
    /\ step.op = "toggleUnavailable" => (step.calls = <<>> /\ error # "")

ErrorHandlersReset ==
    /\ (step'.op = "onerror" /\ step'.runs = 0)
           => /\ \E c \in RecognitionCauses : error' = "Speech recognition error: " \o c
              /\ ~isListening'
    /\ (step'.op = "onerror.utterance" /\ step'.runs = 0)
           => /\ \E c \in SynthesisCauses \cup {"canceled", "interrupted"} :
                     error' = "Speech synthesis error: " \o c
              /\ ~isSpeaking'

\* C9 as stated: an engine error event leaves its message in error and its
\* flag false, and the flag stays false until the user next starts or speaks:
\* isListening turns true only in a toggle, and what follows the handling of
\* an utterance error event (a speak included, which does not set the flag)
\* never turns isSpeaking true.
C9_AsStated ==
    [][/\ ErrorHandlersReset
       /\ (~isListening /\ isListening') => step'.op = "toggleStart"
       /\ step.op = "onerror.utterance" => ~isSpeaking']_vars

\* C9 as amended: an engine error event leaves its message in error and its
\* flag false when its handler returns; isListening turns true again only in
\* a toggle from idle whose start call does not throw, and isSpeaking only in
\* the start callback of an utterance the user submitted, which may be one
\* submitted before the error event was handled.
C9_Amended ==
    [][/\ ErrorHandlersReset
       /\ (~isListening /\ isListening')
              => (step'.op = "toggleStart" /\ step'.runs = 0 /\ ~step'.threw)
       /\ (~isSpeaking /\ isSpeaking') => (step'.op = "onstart" /\ step'.runs = 0)]_vars

\* A recognition error event was handled while the page showed listening, and
\* its handler has just returned.
C9_Witness ==
    /\ step.op = "onerror"
    /\ step.runs = 0
    /\ effDeps[1]
    /\ ~isListening
    /\ error = "Speech recognition error: no-speech"

\* C10: in the stable state after a toggle from idle whose start call did not
\* throw, and in the stable state after an utterance's start callback, error
\* is empty, whichever capabilities are present.
C10_ErrorCleared ==
    (Stable /\ ((step.op = "toggleStart" /\ ~step.threw) \/ step.op = "onstart"))
        => error = ""

\* C11: whenever stopSpeaking has returned with the synthesis capability
\* present, isSpeaking is false, also when the engine's cancel call threw.
C11_StopResetsFlag ==
    (step.op = "stopSpeaking" /\ hasSynthesis) => ~isSpeaking

\* C12: no exception leaves the component (the session is never ended by an
\* engine call that threw), and a handler one of whose engine calls threw
\* leaves a non-empty error.
C12_NoFailureEscapes ==
    /\ life # "crashed"
    /\ (life = "mounted" /\ step.threw /\ step.runs = 0) => error # ""

\* The session was ended by the unmount of the component.
TornDown == life = "unmounted" \/ (life = "crashed" /\ step.op = "unmount")

\* C13: once the component is unmounted, the unmount has requested a stop of
\* the recognition instance and a cancel of the synthesis engine, no
\* recognition instance is active and no utterance is queued, and no handler
\* that runs afterwards calls recognition.start or synthesis.speak.
C13_TeardownReleases ==
    TornDown =>
        /\ \A i \in Instances : Inst(i).st # "active"
        /\ queue = <<>>
        /\ step.op = "unmount" =>
              /\ recognitionRef # NoRec => Count(step.calls, "recognition.stop") = 1
              /\ hasSynthesis => Count(step.calls, "synthesis.cancel") = 1
        /\ Count(step.calls, "recognition.start") = 0
        /\ Count(step.calls, "synthesis.speak") = 0

\* C14 (P1 stop idempotence): a stop request made while isListening is false,
\* by the unmount or by the cleanup of a run of the effect, is ignored by the
\* engine and leaves isListening false and the transcript as it was; the
\* unmount leaves error as it was, a run of the effect changes it only to the
\* report of a missing capability its body makes; and an end event handled
\* while isListening is false leaves isListening false and the transcript and
\* error as they were.
C14_StopWhileIdle ==
    [][ /\ (~isListening /\ step'.op = "unmount" /\ recognitionRef # NoRec) =>
              /\ Count(step'.calls, "recognition.stop") = 1
              /\ ~isListening'
              /\ transcript' = transcript
              /\ error' = error
              /\ recognitionRef' = recognitionRef
              /\ detached' = detached
        /\ (~isListening /\ step'.op = step.op /\ step'.runs = step.runs + 1
               /\ recognitionRef # NoRec) =>
              /\ Count(step'.cleanup, "recognition.stop")
                    = Count(step.cleanup, "recognition.stop") + 1
              /\ ~isListening'
              /\ transcript' = transcript
              /\ error' # error => error' \in {MsgRecUnsupported, MsgSynUnsupported}
        /\ (~isListening /\ step'.op = "onend" /\ step'.runs = 0) =>
              /\ ~isListening'
              /\ transcript' = transcript
              /\ error' = error
      ]_vars

\* After the unmount requested the stop with isListening false and a
\* transcript on the page, the end event of an instance stopped earlier was
\* handled.
C14_Witness ==
    /\ life = "unmounted"
    /\ step.op = "onend"
    /\ ~isListening
    /\ transcript # <<>>

\* C15: the handler of a recognition end event decides on the error and
\* isListening of the moment the event is handled: finalize (isListening
\* false, no engine call) when error is non-empty, one start request when
\* error is empty and isListening is true, with isListening kept unless that
\* start throws, and nothing otherwise.
C15_DecidesOnCurrentValues ==
    [][ (life = "mounted" /\ step'.op = "onend" /\ step'.runs = 0) =>
            /\ error # "" => (~isListening' /\ step'.calls = <<>>)
            /\ (error = "" /\ isListening) =>
                  /\ step'.calls = <<"recognition.start">>
                  /\ ~step'.threw => isListening'
            /\ (error = "" /\ ~isListening) => (~isListening' /\ step'.calls = <<>>)
      ]_vars

\* C16: in every state the page shows with isListening true, some recognition
\* instance is started or still owes an event of its own (it is stopping, or
\* its error event came and its end event is due).
C16_FlagMatchesEngine ==
    (life = "mounted" /\ Stable /\ isListening) =>
        \E i \in Instances : Inst(i).st \in {"active", "stopping", "errored"}

\* C17: recognition.stop is called only by the toggle while listening and by
\* the unmount, synthesis.cancel only by stopSpeaking, by speak and by the
\* unmount; no run of the effect that a change of isListening or error
\* induces calls either of them.
C17_StopOnlyOnRequest ==
    /\ Count(step.calls, "recognition.stop") > 0 => step.op \in {"toggleStop", "unmount"}
    /\ Count(step.calls, "synthesis.cancel") > 0 =>
          step.op \in {"stopSpeaking", "speak", "unmount"}
    /\ Count(step.cleanup, "recognition.stop") = 0
    /\ Count(step.cleanup, "synthesis.cancel") = 0

\* C18: with the recognition capability present, exactly one SpeechRecognition
\* instance is constructed in the session, and no instance other than the one
\* the ref holds delivers events.
C18_SingleHandle ==
    hasRecognition => (handles = 1 /\ detached = <<>>)

\* C19: the transcript changes only when a result event is handled, which
\* appends " " and the fragment to it, and when the toggle is clicked while
\* idle with the recognition capability present, which empties it; every
\* other step (the stop, error and end events, the synthesis handlers and
\* events, input edits, runs of the effect and the unmount) leaves it as it
\* was.
C19_TranscriptFrame ==
    [][ /\ (step'.op = "onresult" /\ step'.runs = 0) =>
              \E f \in Fragments : transcript' = transcript \o <<" ">> \o f
        /\ (step'.op = "toggleStart" /\ step'.runs = 0) => transcript' = <<>>
        /\ ~(step'.op \in {"onresult", "toggleStart"} /\ step'.runs = 0) =>
              transcript' = transcript
      ]_vars

\* The toggle stopped a session and the page still shows what was heard.
C19_Witness ==
    /\ life = "mounted"
    /\ Stable
    /\ step.op = "toggleStop"
    /\ ~isListening
    /\ transcript # <<>>

====
